---- MODULE Spec2Model ----
(***************************************************************************)
(* komob: a minimal Modbus-TCP server (src/komob.hpp) with the example     *)
(* storage backend MemoryRegisterTable (src/examples/server/               *)
(* modbus-server.cpp).                                                     *)
(*                                                                         *)
(* Bytes are naturals 0..255, byte vectors are sequences.  A C++ vector    *)
(* index k is the sequence index k+1.  Unsigned 32-bit values are kept     *)
(* below 2^31 by the inputs the specifications draw (TLC integers are      *)
(* 32-bit signed), so no value of the model ever wraps at 32 bits.         *)
(***************************************************************************)
EXTENDS Integers, Sequences, FiniteSets, TLC

VARIABLES
    data_width,       \* Server::data_width: "W16" or "W32"
    register_tables,  \* Server::register_tables: the backend chain, each a vector of registers
    request,          \* the PDU handed to dispatch_pdu by the handler that has just returned
    response,         \* the PDU dispatch_pdu returned for it
    calls,            \* the backend invocations dispatch_pdu made for it, in order
    hpc,              \* "dispatched" right after a step in which dispatch_pdu ran, else "idle"
    pc,               \* position of Server::serve: "poll" (in poll()), "scan" (in the loop over
                      \* the connected ports) or "killed" (the process was terminated by a signal)
    scan_i,           \* the index i of serve's loop over the connected ports
    pollfd_list,      \* serve's pollfd_list: records [fd, revents], the listening socket first
    backlog,          \* connections the peers have opened and accept() has not returned yet
    sock,             \* per connection: "none", "backlog", "open" (accepted) or "closed" (by the server)
    sockopts,         \* per connection: the socket options the server has set on it
    rx,               \* per connection: bytes received from the peer and not yet read
    peer,             \* per connection: the peer's end, "open", "fin" (closed) or "rst" (reset)
    served,           \* per connection: the requests that reached dispatch_pdu, with their responses
    txbytes,          \* per connection: number of bytes the server has written to it
    nsent,            \* number of sends the peers have made
    last,             \* the last step of serve's loop over the connected ports
    pass,             \* the current pass of that loop: the client entries of the poll set
                      \* when it started, and the entries it has examined, in order
    io                \* one call of handle_single_request, system call by system call

pduvars == <<data_width, register_tables, request, response, calls, hpc>>

srvvars == <<pc, scan_i, pollfd_list, backlog, sock, sockopts, rx, peer, served, txbytes, nsent,
             last, pass>>

vars == <<data_width, register_tables, request, response, calls, hpc,
          pc, scan_i, pollfd_list, backlog, sock, sockopts, rx, peer, served, txbytes, nsent,
          last, pass, io>>

---------------------------------------------------------------------------
(* Bounds of the checked instances *)

\* largest start address / register address the requests name is 0..MaxStart
MaxStart == 1
\* a read or write request names 0..MaxRegs logical registers
MaxRegs == 2
\* number of registers of the small MemoryRegisterTable of the chains
SmallSize == 2
\* connections the peers open during a run
MaxConns == 1
\* sends the peers make during a run
MaxSends == 1

\* connections made to the server when the poll set is what is checked
MaxPorts == 2
\* system calls that end in EINTR during one call of the handler
MaxIntr == 1
\* the clock of a handler call counts the elapsed timeout periods up to this
MaxPeriods == 2

---------------------------------------------------------------------------
(* Program constants *)

EX_ILLEGAL_FUNCTION == 1
EX_ILLEGAL_ADDRESS == 2
EX_ILLEGAL_VALUE == 3
EX_SLAVE_FAILURE == 4
FC_READ_HOLDING_REGISTERS == 3
FC_WRITE_SINGLE_REGISTER == 6
FC_WRITE_MULTIPLE_REGISTERS == 16
\* MemoryRegisterTable(unsigned size=256)
DefaultSize == 256
\* if (quantity > 128)
MaxReadQuantity == 128
\* function_code | 0x80
ExceptionMarker == 128
\* uint8_t header[7]
HeaderSize == 7
\* if (pdu_length > 256)
MaxPduLength == 256
\* the descriptor of the listening socket in the model
listen_fd == 0

---------------------------------------------------------------------------
(* Integer arithmetic of the code *)

RECURSIVE BitOr(_, _)
BitOr(a, b) ==
    IF a = 0 THEN b
    ELSE IF b = 0 THEN a
    ELSE (IF a % 2 = 1 \/ b % 2 = 1 THEN 1 ELSE 0) + 2 * BitOr(a \div 2, b \div 2)

RECURSIVE BitAnd(_, _)
BitAnd(a, b) ==
    IF a = 0 \/ b = 0 THEN 0
    ELSE (IF a % 2 = 1 /\ b % 2 = 1 THEN 1 ELSE 0) + 2 * BitAnd(a \div 2, b \div 2)

Shl(a, n) == a * (2 ^ n)

Shr(a, n) == a \div (2 ^ n)

\* static_cast<uint8_t>(x)
U8(x) == x % 256

\* static_cast<uint16_t>(x)
U16(x) == x % 65536

---------------------------------------------------------------------------
(* Frame codec: big-endian helpers.  p is a byte vector, k the C++ index   *)
(* of the first byte read (&p[k]).                                         *)

get_u16(p, k) == U16(BitOr(Shl(p[k + 1], 8), p[k + 2]))

get_u32(p, k) ==
    BitOr(BitOr(BitOr(Shl(p[k + 1], 24), Shl(p[k + 2], 16)), Shl(p[k + 3], 8)), p[k + 4])

push_u16(out, v) ==
    out \o <<U8(BitAnd(Shr(v, 8), 255)), U8(BitAnd(v, 255))>>

push_u32(out, v) ==
    out \o <<U8(BitAnd(Shr(v, 24), 255)), U8(BitAnd(Shr(v, 16), 255)),
             U8(BitAnd(Shr(v, 8), 255)), U8(BitAnd(v, 255))>>

---------------------------------------------------------------------------
(* Register backends *)

\* MemoryRegisterTable(size): registers(size, 0)
MemoryRegisterTable(size) == [a \in 1..size |-> 0]

\* Server::Server(register_table, ...): register_tables after construction.  A
\* shared_ptr is the set of what it points to: {} for nullptr, else one table.
Server(register_table) ==
    IF register_table = {} THEN <<>> ELSE <<CHOOSE t \in register_table : TRUE>>

\* Server::add(register_table): register_tables afterwards
add(tables, register_table) ==
    IF register_table = {} THEN tables
    ELSE Append(tables, CHOOSE t \in register_table : TRUE)

\* the cell of a register whose backend raises when it is read or written
Fault == 0 - 1

\* a RegisterTable whose read and write raise at every address below size
FaultyRegisterTable(size) == [a \in 1..size |-> Fault]

\* RegisterTable::read as MemoryRegisterTable overrides it: ok is the returned
\* bool, value the out-parameter; thrown tells that the call raised instead
TableRead(table, address) ==
    IF address >= Len(table)
    THEN [ok |-> FALSE, thrown |-> FALSE, value |-> 0]
    ELSE IF table[address + 1] = Fault
    THEN [ok |-> FALSE, thrown |-> TRUE, value |-> 0]
    ELSE [ok |-> TRUE, thrown |-> FALSE, value |-> table[address + 1]]

\* RegisterTable::write as MemoryRegisterTable overrides it: ok is the returned
\* bool, table the vector afterwards; thrown tells that the call raised instead
TableWrite(table, address, value) ==
    IF address >= Len(table)
    THEN [ok |-> FALSE, thrown |-> FALSE, table |-> table]
    ELSE IF table[address + 1] = Fault
    THEN [ok |-> FALSE, thrown |-> TRUE, table |-> table]
    ELSE [ok |-> TRUE, thrown |-> FALSE, table |-> [table EXCEPT ![address + 1] = value]]

\* mutant: the loop over the chain runs from the last backend to the first
\* (t counts the backends offered so far, plus one)
RECURSIVE chain_read_reversed(_, _, _, _)
chain_read_reversed(tables, address, t, log) ==
    IF t > Len(tables)
    THEN [handled |-> FALSE, thrown |-> FALSE, value |-> 0, calls |-> log]
    ELSE LET u == Len(tables) + 1 - t
             r == TableRead(tables[u], address)
             log2 == Append(log, [op |-> "read", table |-> u, address |-> address, value |-> 0])
         IN  IF r.thrown
             THEN [handled |-> FALSE, thrown |-> TRUE, value |-> 0, calls |-> log2]
             ELSE IF r.ok
             THEN [handled |-> TRUE, thrown |-> FALSE, value |-> r.value, calls |-> log2]
             ELSE chain_read_reversed(tables, address, t + 1, log2)

\* for (auto& register_table: register_tables) if (register_table->read(...)) break;
\* t is the chain position about to be offered the address; a call that raises
\* leaves the loop at once.
RECURSIVE chain_read(_, _, _, _)
chain_read(tables, address, t, log) ==
    IF t > Len(tables)
    THEN [handled |-> FALSE, thrown |-> FALSE, value |-> 0, calls |-> log]
    ELSE LET r == TableRead(tables[t], address)
             log2 == Append(log, [op |-> "read", table |-> t, address |-> address, value |-> 0])
         IN  IF r.thrown
             THEN [handled |-> FALSE, thrown |-> TRUE, value |-> 0, calls |-> log2]
             ELSE IF r.ok
             THEN [handled |-> TRUE, thrown |-> FALSE, value |-> r.value, calls |-> log2]
             ELSE chain_read(tables, address, t + 1, log2)

\* mutant: the loop over the chain lacks its break
RECURSIVE chain_write_no_break(_, _, _, _, _)
chain_write_no_break(tables, address, value, t, log) ==
    IF t > Len(tables)
    THEN [handled |-> \E u \in 1..Len(tables) : address < Len(tables[u]),
          thrown |-> FALSE, tables |-> tables, calls |-> log]
    ELSE LET r == TableWrite(tables[t], address, value)
             log2 == Append(log, [op |-> "write", table |-> t, address |-> address, value |-> value])
         IN  chain_write_no_break([tables EXCEPT ![t] = r.table], address, value, t + 1, log2)

\* for (auto& register_table: register_tables) if (register_table->write(...)) break;
RECURSIVE chain_write(_, _, _, _, _)
chain_write(tables, address, value, t, log) ==
    IF t > Len(tables)
    THEN [handled |-> FALSE, thrown |-> FALSE, tables |-> tables, calls |-> log]
    ELSE LET r == TableWrite(tables[t], address, value)
             log2 == Append(log, [op |-> "write", table |-> t, address |-> address, value |-> value])
         IN  IF r.thrown
             THEN [handled |-> FALSE, thrown |-> TRUE, tables |-> tables, calls |-> log2]
             ELSE IF r.ok
             THEN [handled |-> TRUE, thrown |-> FALSE,
                   tables |-> [tables EXCEPT ![t] = r.table], calls |-> log2]
             ELSE chain_write(tables, address, value, t + 1, log2)

---------------------------------------------------------------------------
(* PDU dispatcher.  Every handler returns the response PDU, the backend    *)
(* chain afterwards and the backend invocations it made.                   *)

Result(pdu, tables, log) == [pdu |-> pdu, tables |-> tables, calls |-> log]

\* mutant: the marker is added where the code ORs it in
exception_pdu_add(function_code, exception_code) ==
    <<U8(function_code + ExceptionMarker), exception_code>>

exception_pdu(function_code, exception_code) ==
    <<U8(BitOr(function_code, ExceptionMarker)), exception_code>>

\* unsigned width = (data_width == DataWidth::W32) ? 2 : 1;
WidthCount(dw) == IF dw = "W32" THEN 2 ELSE 1

\* mutant: the divisibility check is missing
ReadQuantityRejected_no_mod(quantity, width) == quantity > MaxReadQuantity

\* the two quantity checks of read_holding_registers; TRUE when the request is rejected
ReadQuantityRejected(quantity, width) ==
    \/ quantity % width # 0
    \/ quantity > MaxReadQuantity

\* out.push_back(static_cast<uint8_t>(quantity * 2))
ReadByteCount(quantity) == U8(quantity * 2)

\* number of iterations of for (unsigned i = 0; i*width < quantity; i++)
LoopCount(quantity, width) == (quantity + width - 1) \div width

\* state of a register loop: the PDU built or returned so far, the backend chain,
\* the backend invocations, and whether the loop has returned from the handler
LoopState(pdu, tables, log, returned) ==
    [pdu |-> pdu, tables |-> tables, calls |-> log, returned |-> returned]

\* mutant: a miss ends the loop with the bytes gathered so far
read_step_partial(dw, function_code, start, i, st) ==
    LET r == chain_read(st.tables, start + i, 1, st.calls)
    IN  IF r.handled
        THEN LoopState(IF dw = "W32" THEN push_u32(st.pdu, r.value)
                                     ELSE push_u16(st.pdu, U16(r.value)),
                       st.tables, r.calls, FALSE)
        ELSE LoopState(st.pdu, st.tables, r.calls, TRUE)

\* mutant: a backend that raises is taken for one that declines
read_step_fault_as_miss(dw, function_code, start, i, st) ==
    LET r == chain_read(st.tables, start + i, 1, st.calls)
    IN  IF r.handled
        THEN LoopState(IF dw = "W32" THEN push_u32(st.pdu, r.value)
                                     ELSE push_u16(st.pdu, U16(r.value)),
                       st.tables, r.calls, FALSE)
        ELSE LoopState(exception_pdu(function_code, EX_ILLEGAL_ADDRESS),
                       st.tables, r.calls, TRUE)

\* one iteration of the register loop of read_holding_registers, at index i;
\* catch (...) answers a backend that raised with the slave-failure exception
read_step(dw, function_code, start, i, st) ==
    LET r == chain_read(st.tables, start + i, 1, st.calls)
    IN  IF r.thrown
        THEN LoopState(exception_pdu(function_code, EX_SLAVE_FAILURE),
                       st.tables, r.calls, TRUE)
        ELSE IF r.handled
        THEN LoopState(IF dw = "W32" THEN push_u32(st.pdu, r.value)
                                     ELSE push_u16(st.pdu, U16(r.value)),
                       st.tables, r.calls, FALSE)
        ELSE LoopState(exception_pdu(function_code, EX_ILLEGAL_ADDRESS),
                       st.tables, r.calls, TRUE)

\* the iterations lo..hi-1 of the register loop of read_holding_registers, in
\* order, stopping at the first that returns (the range is halved to keep the
\* evaluation shallow; the iterations run in index order)
RECURSIVE read_loop(_, _, _, _, _, _)
read_loop(dw, function_code, start, lo, hi, st) ==
    IF st.returned \/ lo >= hi THEN st
    ELSE IF hi = lo + 1 THEN read_step(dw, function_code, start, lo, st)
    ELSE LET mid == (lo + hi) \div 2
             left == read_loop(dw, function_code, start, lo, mid, st)
         IN  read_loop(dw, function_code, start, mid, hi, left)

\* return out; or the exception PDU the loop returned
ReadResult(st) == Result(st.pdu, st.tables, st.calls)

read_holding_registers(dw, tables, req) ==
    LET function_code == req[1]
    IN  IF Len(req) # 5
        THEN Result(exception_pdu(function_code, EX_ILLEGAL_VALUE), tables, <<>>)
        ELSE LET start == get_u16(req, 1)
                 quantity == get_u16(req, 3)
             IN  IF ReadQuantityRejected(quantity, WidthCount(dw))
                 THEN Result(exception_pdu(function_code, EX_ILLEGAL_VALUE), tables, <<>>)
                 ELSE ReadResult(read_loop(dw, function_code, start, 0,
                                           LoopCount(quantity, WidthCount(dw)),
                                           LoopState(<<function_code, ReadByteCount(quantity)>>,
                                                     tables, <<>>, FALSE)))

\* mutant: the width test names the wrong width
SingleWidthRejected_inverted(dw) == dw # "W32"

\* if (data_width != DataWidth::W16): TRUE when write_single_register rejects the width
SingleWidthRejected(dw) == dw # "W16"

\* the echo of the request, or the exception PDU when no backend took the write
\* or one raised
SingleResult(req, w) ==
    IF w.thrown
    THEN Result(exception_pdu(req[1], EX_SLAVE_FAILURE), w.tables, w.calls)
    ELSE IF ~w.handled
    THEN Result(exception_pdu(req[1], EX_ILLEGAL_ADDRESS), w.tables, w.calls)
    ELSE Result(req, w.tables, w.calls)

write_single_register(dw, tables, req) ==
    LET function_code == req[1]
    IN  IF Len(req) # 5
        THEN Result(exception_pdu(function_code, EX_ILLEGAL_VALUE), tables, <<>>)
        ELSE LET address == get_u16(req, 1)
                 value == get_u16(req, 3)
             IN  IF SingleWidthRejected(dw)
                 THEN Result(exception_pdu(function_code, EX_ILLEGAL_VALUE), tables, <<>>)
                 ELSE SingleResult(req, chain_write(tables, address, value, 1, <<>>))

\* mutant: trailing bytes after the announced values are tolerated
WriteShapeRejected_trailing(size, quantity, byte_count, width) ==
    \/ byte_count # quantity * 2
    \/ quantity % width # 0
    \/ size < 6 + byte_count

\* the three shape checks of write_multiple_registers after the size >= 6 check;
\* TRUE when the request is rejected
WriteShapeRejected(size, quantity, byte_count, width) ==
    \/ byte_count # quantity * 2
    \/ quantity % width # 0
    \/ size # 6 + byte_count

\* mutant: the offset of a register's bytes does not count the width
WriteOffset_unscaled(i, width) == 6 + 2 * i

\* unsigned offset = 6 + 2 * i * width;
WriteOffset(i, width) == 6 + 2 * i * width

\* mutant: a miss does not end the loop
write_step_no_abort(dw, req, start, i, st) ==
    LET offset == 6 + 2 * i * WidthCount(dw)
        value == IF dw = "W32" THEN get_u32(req, offset) ELSE get_u16(req, offset)
        w == chain_write(st.tables, start + i, value, 1, st.calls)
    IN  LoopState(st.pdu, w.tables, w.calls, FALSE)

\* one iteration of the register loop of write_multiple_registers, at index i
write_step(dw, req, start, i, st) ==
    LET offset == WriteOffset(i, WidthCount(dw))
        value == IF dw = "W32" THEN get_u32(req, offset) ELSE get_u16(req, offset)
        w == chain_write(st.tables, start + i, value, 1, st.calls)
    IN  IF w.thrown
        THEN LoopState(exception_pdu(req[1], EX_SLAVE_FAILURE), w.tables, w.calls, TRUE)
        ELSE IF w.handled
        THEN LoopState(st.pdu, w.tables, w.calls, FALSE)
        ELSE LoopState(exception_pdu(req[1], EX_ILLEGAL_ADDRESS), w.tables, w.calls, TRUE)

\* the iterations lo..hi-1 of the register loop of write_multiple_registers, in
\* order, stopping at the first that returns
RECURSIVE write_loop(_, _, _, _, _, _)
write_loop(dw, req, start, lo, hi, st) ==
    IF st.returned \/ lo >= hi THEN st
    ELSE IF hi = lo + 1 THEN write_step(dw, req, start, lo, st)
    ELSE LET mid == (lo + hi) \div 2
             left == write_loop(dw, req, start, lo, mid, st)
         IN  write_loop(dw, req, start, mid, hi, left)

\* Response: [FC][Addr Hi][Addr Lo][Qty Hi][Qty Lo]
WriteResponse(function_code, start, quantity) ==
    push_u16(push_u16(<<function_code>>, U16(start)), U16(quantity))

\* the response after the loop, or the exception PDU the loop returned
WriteResult(function_code, start, quantity, st) ==
    IF st.returned
    THEN Result(st.pdu, st.tables, st.calls)
    ELSE Result(WriteResponse(function_code, start, quantity), st.tables, st.calls)

write_multiple_registers(dw, tables, req) ==
    LET function_code == req[1]
    IN  IF Len(req) < 6
        THEN Result(exception_pdu(function_code, EX_ILLEGAL_VALUE), tables, <<>>)
        ELSE LET start == get_u16(req, 1)
                 quantity == get_u16(req, 3)
                 byte_count == req[6]
             IN  IF WriteShapeRejected(Len(req), quantity, byte_count, WidthCount(dw))
                 THEN Result(exception_pdu(function_code, EX_ILLEGAL_VALUE), tables, <<>>)
                 ELSE WriteResult(function_code, start, quantity,
                                  write_loop(dw, req, start, 0,
                                             LoopCount(quantity, WidthCount(dw)),
                                             LoopState(<<>>, tables, <<>>, FALSE)))

dispatch_pdu(dw, tables, req) ==
    IF Len(req) < 1
    THEN Result(exception_pdu(0, EX_ILLEGAL_FUNCTION), tables, <<>>)
    ELSE LET function_code == req[1]
         IN  CASE function_code = FC_READ_HOLDING_REGISTERS ->
                    read_holding_registers(dw, tables, req)
               [] function_code = FC_WRITE_SINGLE_REGISTER ->
                    write_single_register(dw, tables, req)
               [] function_code = FC_WRITE_MULTIPLE_REGISTERS ->
                    write_multiple_registers(dw, tables, req)
               [] OTHER ->
                    Result(exception_pdu(function_code, EX_ILLEGAL_FUNCTION), tables, <<>>)

---------------------------------------------------------------------------
(* Connection handler.  A client socket is blocking with receive and send  *)
(* timeouts: recv returns the bytes that have arrived, and when none are   *)
(* left it returns 0 (peer closed), fails (peer reset) or times out.       *)
(* The handler runs to its end within one step of the event loop; the      *)
(* bytes it can read are those the peer has sent before that step.         *)

\* read_exact(fd, buf, n) on a socket holding the bytes buf: ok is the returned
\* bool, data the n bytes read, rest the bytes left in the socket.  With fewer
\* than n bytes to come, recv ends in 0, an error or a timeout.
read_exact(buf, n) ==
    IF Len(buf) < n
    THEN [ok |-> FALSE, data |-> <<>>, rest |-> <<>>]
    ELSE [ok |-> TRUE, data |-> SubSeq(buf, 1, n), rest |-> SubSeq(buf, n + 1, Len(buf))]

\* write_exact(fd, buf, n): sent is the number of bytes the socket took before
\* send failed or timed out, n when every send succeeded
write_exact(n, sent) == [ok |-> sent = n, written |-> sent]

\* mutant: a length field below 2 is let through
HeaderRejected_no_length(protocol_id, length) == protocol_id # 0

\* if (protocol_id != 0) return false; else if (length < 2) return false;
HeaderRejected(protocol_id, length) ==
    \/ protocol_id # 0
    \/ length < 2

\* size_t pdu_length = length > 1 ? static_cast<size_t>(length-1) : 0;
PduLength(length) == IF length > 1 THEN length - 1 ELSE 0

\* if (pdu_length > 256) return false;
PduTooLarge(pdu_length) == pdu_length > MaxPduLength

\* mutant: the length field leaves out the unit id
ResponseFrame_no_unit(transaction_id, unit_id, resp_pdu) ==
    push_u16(push_u16(push_u16(<<>>, U16(transaction_id)), 0), U16(Len(resp_pdu)))
        \o <<U8(unit_id)>> \o resp_pdu

\* the response frame: MBAP header, then the response PDU
ResponseFrame(transaction_id, unit_id, resp_pdu) ==
    push_u16(push_u16(push_u16(<<>>, U16(transaction_id)), 0), U16(1 + Len(resp_pdu)))
        \o <<U8(unit_id)>> \o resp_pdu

\* what handle_single_request returns when it returns false before dispatching
HandlerFailed(tables) ==
    [ok |-> FALSE, dispatched |-> FALSE, rest |-> <<>>, tables |-> tables,
     header |-> <<>>, pdu |-> <<>>, resp_pdu |-> <<>>, calls |-> <<>>,
     frame |-> <<>>, written |-> 0]

\* the end of handle_single_request: the response frame is built from the
\* dispatcher's result d and written; sent is the number of bytes the socket takes
HandlerRespond(header, b, d, frame, sent) ==
    [ok |-> write_exact(Len(frame), sent).ok, dispatched |-> TRUE, rest |-> b.rest,
     tables |-> d.tables, header |-> header, pdu |-> b.data,
     resp_pdu |-> d.pdu, calls |-> d.calls, frame |-> frame,
     written |-> write_exact(Len(frame), sent).written]

\* the bytes a write of frame gets out: none to a peer that has reset the
\* connection, else all but the shortfall
BytesSent(frame, peerstate, short) ==
    IF peerstate = "rst" \/ short >= Len(frame) THEN 0 ELSE Len(frame) - short

\* handle_single_request from the dispatch on: d is what dispatch_pdu returned
\* for the PDU b.data
HandlerDispatched(header, b, d, peerstate, short) ==
    HandlerRespond(header, b, d,
                   ResponseFrame(get_u16(header, 0), header[7], d.pdu),
                   BytesSent(ResponseFrame(get_u16(header, 0), header[7], d.pdu),
                             peerstate, short))

\* handle_single_request from the read of the PDU on: b is what read_exact returned
HandlerBody(dw, tables, header, b, peerstate, short) ==
    IF ~b.ok THEN HandlerFailed(tables)
    ELSE HandlerDispatched(header, b, dispatch_pdu(dw, tables, b.data), peerstate, short)

\* handle_single_request from the header checks on: h is what read_exact returned
\* for the 7 header bytes
HandlerHeader(dw, tables, h, peerstate, short) ==
    IF ~h.ok THEN HandlerFailed(tables)
    ELSE IF HeaderRejected(get_u16(h.data, 2), get_u16(h.data, 4)) THEN HandlerFailed(tables)
    ELSE IF PduTooLarge(PduLength(get_u16(h.data, 4))) THEN HandlerFailed(tables)
    ELSE HandlerBody(dw, tables, h.data,
                     read_exact(h.rest, PduLength(get_u16(h.data, 4))), peerstate, short)

\* handle_single_request(fd) on a socket holding buf; short is the number of
\* bytes by which the write of the response falls short (0: it completes)
handle_single_request(dw, tables, buf, peerstate, short) ==
    HandlerHeader(dw, tables, read_exact(buf, HeaderSize), peerstate, short)

---------------------------------------------------------------------------
(* Event loop *)

POLLFLAGS_ERR == {"POLLERR", "POLLHUP", "POLLNVAL"}

\* the revents poll() reports for a descriptor
Revents(fd, bl, rxs, peers) ==
    IF fd = listen_fd
    THEN (IF bl # <<>> THEN {"POLLIN"} ELSE {})
    ELSE (IF rxs[fd] # <<>> \/ peers[fd] # "open" THEN {"POLLIN"} ELSE {})
            \cup (IF peers[fd] = "rst" THEN {"POLLERR", "POLLHUP"} ELSE {})

\* mutant: a connection is closed after every request it was served
CloseThis_one_shot(revents, handled, ok) ==
    \/ revents \cap POLLFLAGS_ERR # {}
    \/ handled

\* close_this of the loop over the connected ports: handled tells whether
\* handle_single_request was called, ok what it returned
CloseThis(revents, handled, ok) ==
    \/ revents \cap POLLFLAGS_ERR # {}
    \/ (handled /\ ~ok)

\* mutant: a readable socket gets the handler whatever else it reports
CallsHandler_readable(revents) ==
    "POLLIN" \in revents

\* whether the loop over the connected ports calls handle_single_request
CallsHandler(revents) ==
    /\ revents \cap POLLFLAGS_ERR = {}
    /\ "POLLIN" \in revents

\* mutant: the last entry is dropped without being copied into the slot
SwapRemove_pop_only(list, k) ==
    SubSeq(list, 1, Len(list) - 1)

\* pollfd_list[i] = pollfd_list.back(); pollfd_list.pop_back();  (k = i + 1)
SwapRemove(list, k) ==
    SubSeq([list EXCEPT ![k] = list[Len(list)]], 1, Len(list) - 1)

---------------------------------------------------------------------------
(* Request PDUs the dispatcher is driven with.  The encoders below build   *)
(* the client's bytes by division, independently of the server's codec.    *)

Be16(v) == <<v \div 256, v % 256>>

Be32(v) == <<v \div 16777216, (v \div 65536) % 256, (v \div 256) % 256, v % 256>>

\* register values a client writes: 0x0010, 0x1234 / 0x00100020, 0x12345678
Values(dw) == IF dw = "W32" THEN {1048608, 305419896} ELSE {16, 4660}

RegBytes(dw, v) == IF dw = "W32" THEN Be32(v) ELSE Be16(v)

RECURSIVE Flatten(_, _)
Flatten(dw, vals) ==
    IF vals = <<>> THEN <<>>
    ELSE RegBytes(dw, Head(vals)) \o Flatten(dw, Tail(vals))

RECURSIVE Repeat(_, _)
Repeat(bytes, n) == IF n = 0 THEN <<>> ELSE bytes \o Repeat(bytes, n - 1)

ReadRequest(start, quantity) ==
    <<FC_READ_HOLDING_REGISTERS>> \o Be16(start) \o Be16(quantity)

WriteSingleRequest(address, value) ==
    <<FC_WRITE_SINGLE_REGISTER>> \o Be16(address) \o Be16(value)

\* a write of the registers vals at start, with the byte_count field and the
\* value bytes as given
WriteRequest(start, quantity, byte_count, bytes) ==
    <<FC_WRITE_MULTIPLE_REGISTERS>> \o Be16(start) \o Be16(quantity)
        \o <<byte_count>> \o bytes

GoodWrite(dw, start, vals) ==
    WriteRequest(start, Len(vals) * WidthCount(dw), 2 * Len(vals) * WidthCount(dw),
                 Flatten(dw, vals))

ReadStarts == (0..MaxStart) \cup {SmallSize, DefaultSize - 1, DefaultSize}

ReadQuantities ==
    (0..(2 * MaxRegs + 1))
        \cup ((MaxReadQuantity - 2)..(MaxReadQuantity + 2))
        \cup {2 * MaxReadQuantity, 2 * MaxReadQuantity + 2}

ReadRequests ==
    {ReadRequest(s, q) : s \in ReadStarts, q \in ReadQuantities}
        \cup {<<FC_READ_HOLDING_REGISTERS>>,
              <<FC_READ_HOLDING_REGISTERS, 0, 0, 0>>,
              <<FC_READ_HOLDING_REGISTERS, 0, 0, 0, 1, 0>>}

WriteSingleRequests ==
    {WriteSingleRequest(a, v) :
        a \in (0..MaxStart) \cup {SmallSize, DefaultSize}, v \in Values("W16")}
        \cup {<<FC_WRITE_SINGLE_REGISTER>>,
              <<FC_WRITE_SINGLE_REGISTER, 0, 0, 0>>,
              <<FC_WRITE_SINGLE_REGISTER, 0, 0, 0, 16, 0>>}

\* the largest quantity whose byte_count, quantity * 2, fits the one-byte
\* field of the request
MaxWriteQuantity == 255 \div 2

\* the value bytes of the registers vals, byte by byte
ValueBytes(dw, vals) ==
    [k \in 1..(2 * WidthCount(dw) * Len(vals)) |->
        RegBytes(dw, vals[((k - 1) \div (2 * WidthCount(dw))) + 1])
            [((k - 1) % (2 * WidthCount(dw))) + 1]]

\* the registers of a long write, every register with a value of its own
LongValues(dw, n) ==
    [i \in 1..n |-> (IF dw = "W32" THEN 65536 * (4660 + i) ELSE 0)
                       + 256 * i + (255 - i)]

\* a write of the most registers a request can carry, and of one register less
LongWrites(dw) ==
    {WriteRequest(s, n * WidthCount(dw), 2 * n * WidthCount(dw),
                  ValueBytes(dw, LongValues(dw, n))) :
        s \in {1}, n \in {MaxWriteQuantity \div WidthCount(dw),
                              MaxWriteQuantity \div WidthCount(dw) - 1}}

GoodWrites(dw) ==
    {GoodWrite(dw, s, vals) :
        s \in 0..MaxStart, vals \in UNION {[1..n -> Values(dw)] : n \in 0..MaxRegs}}
        \cup {GoodWrite(dw, DefaultSize, <<v>>) : v \in Values(dw)}

\* writes with a wrong byte_count field, trailing or missing bytes, an odd
\* quantity, or fewer than 6 bytes
BadWrites ==
    UNION {
        {WriteRequest(s, q, 2 * q + 1, Repeat(<<0, 16>>, q) \o <<0>>),
         WriteRequest(s, q, 2 * q + 2, Repeat(<<0, 16>>, q)),
         WriteRequest(s, q + 1, 2 * q, Repeat(<<0, 16>>, q)),
         WriteRequest(s, q, 2 * q, Repeat(<<0, 16>>, q) \o <<0>>),
         WriteRequest(s, q, 2 * q, Repeat(<<0, 16>>, q) \o <<0, 16>>),
         WriteRequest(s, q + 1, 2 * q + 2, Repeat(<<0, 16>>, q) \o <<0>>),
         WriteRequest(s, q + 2, 2 * q + 4, Repeat(<<0, 16>>, q))}
        : s \in {0, DefaultSize}, q \in 0..(2 * MaxRegs)}
        \cup {<<FC_WRITE_MULTIPLE_REGISTERS>>,
              <<FC_WRITE_MULTIPLE_REGISTERS, 0, 0, 0, 1>>,
              <<FC_WRITE_MULTIPLE_REGISTERS, 0, 0, 0, 0>>}

\* writes of an odd quantity that are otherwise well formed
OddWrites ==
    {WriteRequest(s, q, 2 * q, Repeat(<<0, 16>>, q)) :
        s \in {0, DefaultSize}, q \in {2 * n + 1 : n \in 0..(MaxRegs - 1)}}

OtherRequests ==
    {<<>>, <<153>>, <<153, 0, 0, 0, 1>>, <<1, 0, 0, 0, 1>>, <<131, 0, 0, 0, 1>>,
     <<0>>, <<127, 0>>, <<255>>}

Requests(dw) ==
    ReadRequests \cup WriteSingleRequests \cup GoodWrites(dw) \cup BadWrites
        \cup OddWrites \cup OtherRequests

\* backend chains a server is constructed with
Chains ==
    {Server({}),
     Server({MemoryRegisterTable(SmallSize)}),
     add(Server({MemoryRegisterTable(0)}), {MemoryRegisterTable(SmallSize)}),
     add(add(Server({MemoryRegisterTable(SmallSize)}), {}),
         {MemoryRegisterTable(DefaultSize)})}

---------------------------------------------------------------------------
(* Frames the peers send *)

Conns == 1..(IF MaxPorts > MaxConns THEN MaxPorts ELSE MaxConns)

Frame(transaction_id, protocol_id, length, unit_id, pdu) ==
    Be16(transaction_id) \o Be16(protocol_id) \o Be16(length) \o <<unit_id>> \o pdu

GoodFrame(transaction_id, unit_id, pdu) ==
    Frame(transaction_id, 0, 1 + Len(pdu), unit_id, pdu)

ReadFrame == GoodFrame(258, 17, ReadRequest(0, 2))

UnknownFrame == GoodFrame(259, 17, <<153>>)

ShortReadFrame == GoodFrame(263, 19, <<FC_READ_HOLDING_REGISTERS, 0, 0>>)

PastEndFrame ==
    GoodFrame(265, 20, WriteRequest(SmallSize - 1, 4, 8, <<0, 16, 0, 32, 0, 48, 0, 64>>))

\* well-framed requests: a read, an unknown function code, a single write at an
\* owned address, a read of the wrong length, a write that runs past the table,
\* and an unknown function code in a PDU of 256 bytes
GoodFrames ==
    {ReadFrame,
     UnknownFrame,
     GoodFrame(260, 18, WriteSingleRequest(1, 4660)),
     ShortReadFrame,
     PastEndFrame,
     GoodFrame(266, 21, [k \in 1..MaxPduLength |-> 153])}

\* two requests arriving together
DoubleFrames ==
    {UnknownFrame \o ReadFrame, ShortReadFrame \o ReadFrame, PastEndFrame \o ReadFrame}

\* frames the handler cannot answer: a protocol id other than 0, a length of 1
\* and of 0, a PDU longer than 256 bytes, 4 bytes of a header, and a PDU cut short
BadFrames ==
    {Frame(513, 1, 6, 33, ReadRequest(0, 2)),
     Frame(514, 0, 1, 33, <<>>),
     Frame(515, 0, 0, 33, <<3>>),
     Frame(516, 0, MaxPduLength + 2, 33, <<3, 0, 0, 0, 2>>),
     <<2, 5, 0, 0>>,
     Frame(518, 0, 6, 33, <<3, 0>>)}

Chunks == GoodFrames \cup DoubleFrames \cup BadFrames

\* by how many bytes a write of a response may fall short
Shortfalls == {0, 1}

---------------------------------------------------------------------------
(* Spec: the server, from the first poll() on *)

\* no call of handle_single_request is followed system call by system call
IoUnused == io = [pc |-> "none"]

\* serve() has bound and listens, no peer has connected
ServerIdle ==
    /\ pc = "poll"
    /\ scan_i = 1
    /\ pollfd_list = <<[fd |-> listen_fd, revents |-> {}]>>
    /\ backlog = <<>>
    /\ sock = [c \in Conns |-> "none"]
    /\ sockopts = [c \in Conns |-> {}]
    /\ rx = [c \in Conns |-> <<>>]
    /\ peer = [c \in Conns |-> "open"]
    /\ served = [c \in Conns |-> <<>>]
    /\ txbytes = [c \in Conns |-> 0]
    /\ nsent = 0
    /\ last = [op |-> "none"]
    /\ pass = [start |-> <<>>, seen |-> <<>>]

Init ==
    /\ data_width \in {"W16", "W32"}
    /\ register_tables = <<MemoryRegisterTable(SmallSize)>>
    /\ request = <<>>
    /\ response = <<>>
    /\ calls = <<>>
    /\ hpc = "idle"
    /\ ServerIdle
    /\ IoUnused

\* the locals of a handler call are gone
NoDispatch ==
    /\ request' = <<>>
    /\ response' = <<>>
    /\ calls' = <<>>
    /\ hpc' = "idle"

\* a peer connects
ClientConnect(c) ==
    /\ pc # "killed"
    /\ sock[c] = "none"
    /\ \A d \in Conns : d < c => sock[d] # "none"
    /\ sock' = [sock EXCEPT ![c] = "backlog"]
    /\ backlog' = Append(backlog, c)
    /\ UNCHANGED <<pduvars, pc, scan_i, pollfd_list, sockopts, rx, peer, served,
                   txbytes, nsent, last, pass, io>>

\* a peer's bytes arrive.  The peers act on accepted connections: what a peer
\* sends, or that it closes, before accept() returns its connection shows in the
\* revents of no earlier poll() than what it does right after.
ClientSend(c, chunk) ==
    /\ sock[c] = "open"
    /\ peer[c] = "open"
    /\ nsent < MaxSends
    /\ rx' = [rx EXCEPT ![c] = rx[c] \o chunk]
    /\ nsent' = nsent + 1
    /\ UNCHANGED <<pduvars, pc, scan_i, pollfd_list, backlog, sock, sockopts, peer,
                   served, txbytes, last, pass, io>>

\* a peer closes its end
ClientClose(c) ==
    /\ sock[c] = "open"
    /\ peer[c] = "open"
    /\ peer' = [peer EXCEPT ![c] = "fin"]
    /\ UNCHANGED <<pduvars, pc, scan_i, pollfd_list, backlog, sock, sockopts, rx,
                   served, txbytes, nsent, last, pass, io>>

\* a peer resets the connection
ClientReset(c) ==
    /\ sock[c] = "open"
    /\ peer[c] \in {"open", "fin"}
    /\ peer' = [peer EXCEPT ![c] = "rst"]
    /\ UNCHANGED <<pduvars, pc, scan_i, pollfd_list, backlog, sock, sockopts, rx,
                   served, txbytes, nsent, last, pass, io>>

\* the poll set after poll() has stored the revents of every descriptor
Polled(list, bl, rxs, peers) ==
    [k \in 1..Len(list) |->
        [fd |-> list[k].fd, revents |-> Revents(list[k].fd, bl, rxs, peers)]]

\* pollfd_list.push_back(pollfd{fd, POLLIN, 0}) for each accepted connection
RECURSIVE Pushed(_, _)
Pushed(list, fds) ==
    IF fds = <<>> THEN list
    ELSE Pushed(Append(list, [fd |-> Head(fds), revents |-> {}]), Tail(fds))

\* mutant: the accepted socket is also given what the listening socket gets
AcceptedOptions_nonblocking ==
    {"SO_KEEPALIVE", "TCP_KEEPIDLE", "TCP_KEEPINTVL", "TCP_KEEPCNT",
     "SO_RCVTIMEO", "SO_SNDTIMEO", "O_NONBLOCK"}

\* set_keepalive and set_sock_timeouts_ms
AcceptedOptions ==
    {"SO_KEEPALIVE", "TCP_KEEPIDLE", "TCP_KEEPINTVL", "TCP_KEEPCNT",
     "SO_RCVTIMEO", "SO_SNDTIMEO"}

\* where the loop over the connected ports stands at index k of list: it goes on,
\* or it has ended and serve is back at poll()
LoopAt(k, list) ==
    IF k < Len(list)
    THEN pc' = "scan" /\ scan_i' = k
    ELSE pc' = "poll" /\ scan_i' = 1

\* poll() returns; when the listening socket is readable, accept() is called
\* until it returns no connection: n connections are accepted (all that are
\* pending when accept ends in EAGAIN, fewer when it fails otherwise), each
\* gets its keepalive and timeouts and joins the poll set
Wake ==
    /\ pc = "poll"
    /\ \E k \in 1..Len(pollfd_list) : Revents(pollfd_list[k].fd, backlog, rx, peer) # {}
    /\ \E n \in 0..Len(backlog) :
          /\ pollfd_list' = Pushed(Polled(pollfd_list, backlog, rx, peer),
                                   SubSeq(backlog, 1, n))
          /\ backlog' = SubSeq(backlog, n + 1, Len(backlog))
          /\ sock' = [c \in Conns |->
                        IF \E k \in 1..n : backlog[k] = c THEN "open" ELSE sock[c]]
          /\ sockopts' = [c \in Conns |->
                        IF \E k \in 1..n : backlog[k] = c THEN AcceptedOptions
                        ELSE sockopts[c]]
          /\ LoopAt(1, pollfd_list')
    /\ last' = [op |-> "none"]
    /\ pass' = [start |-> Tail(pollfd_list'), seen |-> <<>>]
    /\ NoDispatch
    /\ UNCHANGED <<data_width, register_tables, rx, peer, served, txbytes, nsent, io>>

\* mutant: the index advances after a removal as well
CloseEntry_advance(c) ==
    /\ sock' = [sock EXCEPT ![c] = "closed"]
    /\ pollfd_list' = SwapRemove(pollfd_list, scan_i + 1)
    /\ LoopAt(scan_i + 1, pollfd_list')

\* ::close(fd); swap with the last entry and pop; continue
CloseEntry(c) ==
    /\ sock' = [sock EXCEPT ![c] = "closed"]
    /\ pollfd_list' = SwapRemove(pollfd_list, scan_i + 1)
    /\ LoopAt(scan_i, pollfd_list')

\* ++i
KeepEntry ==
    /\ sock' = sock
    /\ pollfd_list' = pollfd_list
    /\ LoopAt(scan_i + 1, pollfd_list')

\* an iteration of the loop over the connected ports that does not call the handler
ScanNoHandler ==
    /\ pc = "scan"
    /\ scan_i < Len(pollfd_list)
    /\ LET e == pollfd_list[scan_i + 1]
       IN  /\ ~CallsHandler(e.revents)
           /\ IF CloseThis(e.revents, FALSE, FALSE)
              THEN /\ CloseEntry(e.fd)
                   /\ rx' = [rx EXCEPT ![e.fd] = <<>>]
                   /\ last' = [op |-> "close", fd |-> e.fd]
              ELSE /\ KeepEntry
                   /\ rx' = rx
                   /\ last' = [op |-> "skip", fd |-> e.fd]
    /\ pass' = [pass EXCEPT !.seen = Append(@, pollfd_list[scan_i + 1])]
    /\ NoDispatch
    /\ UNCHANGED <<data_width, register_tables, backlog, sockopts, peer, served,
                   txbytes, nsent, io>>

\* what an iteration that called handle_single_request on connection c leaves,
\* r being what the handler did
Handled(e, c, r) ==
    /\ register_tables' = r.tables
    /\ txbytes' = [txbytes EXCEPT ![c] = @ + r.written]
    /\ IF r.dispatched
       THEN /\ request' = r.pdu
            /\ response' = r.resp_pdu
            /\ calls' = r.calls
            /\ hpc' = "dispatched"
            /\ served' = [served EXCEPT ![c] = Append(@,
                   [header |-> r.header, pdu |-> r.pdu,
                    resp_pdu |-> r.resp_pdu, frame |-> r.frame,
                    written |-> r.written, ok |-> r.ok])]
       ELSE /\ NoDispatch
            /\ served' = served
    /\ last' = [op |-> "handle", fd |-> c, input |-> rx[c], ok |-> r.ok]
    /\ IF CloseThis(e.revents, TRUE, r.ok)
       THEN /\ CloseEntry(c)
            /\ rx' = [rx EXCEPT ![c] = <<>>]
       ELSE /\ KeepEntry
            /\ rx' = [rx EXCEPT ![c] = r.rest]

\* an iteration of the loop over the connected ports that calls handle_single_request
ScanHandler ==
    /\ pc = "scan"
    /\ scan_i < Len(pollfd_list)
    /\ CallsHandler(pollfd_list[scan_i + 1].revents)
    /\ \E short \in Shortfalls :
          Handled(pollfd_list[scan_i + 1], pollfd_list[scan_i + 1].fd,
                  handle_single_request(data_width, register_tables,
                                        rx[pollfd_list[scan_i + 1].fd],
                                        peer[pollfd_list[scan_i + 1].fd], short))
    /\ pass' = [pass EXCEPT !.seen = Append(@, pollfd_list[scan_i + 1])]
    /\ UNCHANGED <<data_width, backlog, sockopts, peer, nsent, io>>

\* what is left when handle_single_request on connection c has dispatched the
\* request (r is what it did up to there) and its send() raises SIGPIPE: the
\* signal is neither ignored nor handled (and send is called without
\* MSG_NOSIGNAL), so the process is terminated, and with it go every descriptor
\* and the poll set
Killed(c, r) ==
    /\ register_tables' = r.tables
    /\ request' = r.pdu
    /\ response' = r.resp_pdu
    /\ calls' = r.calls
    /\ hpc' = "dispatched"
    /\ served' = [served EXCEPT ![c] = Append(@,
           [header |-> r.header, pdu |-> r.pdu,
            resp_pdu |-> r.resp_pdu, frame |-> r.frame,
            written |-> 0, ok |-> FALSE])]
    /\ last' = [op |-> "handle", fd |-> c, input |-> rx[c], ok |-> FALSE]
    /\ pc' = "killed"
    /\ scan_i' = 1
    /\ pollfd_list' = <<>>
    /\ backlog' = <<>>
    /\ sock' = [d \in Conns |-> IF sock[d] \in {"open", "backlog"} THEN "closed" ELSE sock[d]]
    /\ rx' = [d \in Conns |-> <<>>]

\* an iteration of the loop over the connected ports that calls
\* handle_single_request on a connection the peer has reset since poll()
\* returned: the request is read and dispatched, and the send() of write_exact,
\* on a socket that is no longer connected, raises SIGPIPE
ScanHandlerSigpipe ==
    /\ pc = "scan"
    /\ scan_i < Len(pollfd_list)
    /\ CallsHandler(pollfd_list[scan_i + 1].revents)
    /\ peer[pollfd_list[scan_i + 1].fd] = "rst"
    /\ handle_single_request(data_width, register_tables,
                             rx[pollfd_list[scan_i + 1].fd], "rst", 0).dispatched
    /\ Killed(pollfd_list[scan_i + 1].fd,
              handle_single_request(data_width, register_tables,
                                    rx[pollfd_list[scan_i + 1].fd], "rst", 0))
    /\ pass' = [pass EXCEPT !.seen = Append(@, pollfd_list[scan_i + 1])]
    /\ UNCHANGED <<data_width, sockopts, peer, txbytes, nsent, io>>

Next ==
    \/ \E c \in 1..MaxConns : ClientConnect(c)
    \/ \E c \in Conns : \E chunk \in Chunks : ClientSend(c, chunk)
    \/ \E c \in Conns : ClientClose(c)
    \/ \E c \in Conns : ClientReset(c)
    \/ Wake
    \/ ScanNoHandler
    \/ ScanHandler
    \/ ScanHandlerSigpipe

Spec == Init /\ [][Next]_vars

\* SpecFault: the server with a backend chain whose second backend raises:
\* address 0 is served by the first backend, the addresses from 1 below
\* SmallSize raise, the others are owned by no backend
InitFault ==
    /\ data_width \in {"W16", "W32"}
    /\ register_tables = add(Server({MemoryRegisterTable(1)}),
                             {FaultyRegisterTable(SmallSize)})
    /\ request = <<>>
    /\ response = <<>>
    /\ calls = <<>>
    /\ hpc = "idle"
    /\ ServerIdle
    /\ IoUnused

SpecFault == InitFault /\ [][Next]_vars

\* SpecLoop: the server with up to MaxPorts peers connected at once, each
\* sending the same read request, closing or resetting
NextLoop ==
    \/ \E c \in 1..MaxPorts : ClientConnect(c)
    \/ \E c \in Conns : ClientSend(c, ReadFrame)
    \/ \E c \in Conns : ClientClose(c)
    \/ \E c \in Conns : ClientReset(c)
    \/ Wake
    \/ ScanNoHandler
    \/ ScanHandler
    \/ ScanHandlerSigpipe

SpecLoop == Init /\ [][NextLoop]_vars

---------------------------------------------------------------------------
(* SpecIo: handle_single_request on one connection, followed through every *)
(* recv of read_exact and every send of write_exact.  Each recv and send   *)
(* returns within the socket's timeout (SO_RCVTIMEO, SO_SNDTIMEO); a call  *)
(* that returns late has used up to one timeout period.                    *)

\* what the peer sends during a run, front first
IoStreams ==
    {ReadFrame,
     UnknownFrame \o ReadFrame,
     GoodFrame(260, 18, WriteSingleRequest(1, 4660)),
     <<2, 5, 0, 0>>,
     Frame(513, 1, 6, 33, ReadRequest(0, 2)),
     Frame(518, 0, 6, 33, <<3, 0>>)}

\* what the peer does once its bytes are received: it closes, it stays silent,
\* or it resets the connection
IoEnds == {"fin", "stall", "rst"}

\* what the last system call returned
Ret(call, kind, count) == [call |-> call, kind |-> kind, count |-> count]

\* the connection is in the poll set, the handler is not running
IoIdle(stream, end) ==
    [pc |-> "idle", n |-> 0, off |-> 0, header |-> <<>>, pdu |-> <<>>,
     frame |-> <<>>, wire |-> stream, end |-> end, taken |-> <<>>, out |-> <<>>,
     clock |-> 0, intr |-> 0, ret |-> Ret("none", "none", 0)]

InitIo ==
    /\ data_width \in {"W16", "W32"}
    /\ register_tables = Server({MemoryRegisterTable(SmallSize)})
    /\ request = <<>>
    /\ response = <<>>
    /\ calls = <<>>
    /\ hpc = "idle"
    /\ ServerIdle
    /\ io \in {IoIdle(stream, end) : stream \in IoStreams, end \in IoEnds}

\* the clock after a system call that took late periods
Tick(clock, late) ==
    IF clock + late > MaxPeriods THEN MaxPeriods ELSE clock + late

\* the loop over the connected ports calls handle_single_request(fd):
\* read_exact(fd, header, 7) starts with off = 0
IoCall ==
    /\ io.pc = "idle"
    /\ io.wire # <<>> \/ io.end # "stall"
    /\ io' = [io EXCEPT !.pc = "header", !.n = HeaderSize, !.off = 0,
                        !.header = <<>>, !.pdu = <<>>, !.frame = <<>>,
                        !.taken = <<>>, !.out = <<>>, !.clock = 0]
    /\ UNCHANGED <<pduvars, srvvars>>

\* recv returned k bytes: off += recv_size
Received(s, k, late) ==
    [s EXCEPT !.wire = SubSeq(@, k + 1, Len(@)),
              !.taken = @ \o SubSeq(s.wire, 1, k),
              !.header = IF s.pc = "header" THEN @ \o SubSeq(s.wire, 1, k) ELSE @,
              !.pdu = IF s.pc = "body" THEN @ \o SubSeq(s.wire, 1, k) ELSE @,
              !.off = @ + k,
              !.clock = Tick(@, late),
              !.ret = Ret("recv", "bytes", k)]

\* the header is read: the checks of protocol id and length, then
\* read_exact(fd, pdu, pdu_length) starts
AfterHeader(s) ==
    IF \/ HeaderRejected(get_u16(s.header, 2), get_u16(s.header, 4))
       \/ PduTooLarge(PduLength(get_u16(s.header, 4)))
    THEN [s EXCEPT !.pc = "failed"]
    ELSE [s EXCEPT !.pc = "body", !.n = PduLength(get_u16(s.header, 4)), !.off = 0]

\* the PDU is read and dispatched (d is what dispatch_pdu returned): the
\* response frame is built and write_exact starts
AfterBody(s, d) ==
    /\ io' = [s EXCEPT !.pc = "write",
                       !.frame = ResponseFrame(get_u16(s.header, 0), s.header[7], d.pdu),
                       !.n = Len(ResponseFrame(get_u16(s.header, 0), s.header[7], d.pdu)),
                       !.off = 0]
    /\ register_tables' = d.tables

\* the test while (off < n) after a recv, and what follows read_exact
AfterRecv(s) ==
    IF s.off < s.n THEN io' = s /\ register_tables' = register_tables
    ELSE IF s.pc = "header" THEN io' = AfterHeader(s) /\ register_tables' = register_tables
    ELSE AfterBody(s, dispatch_pdu(data_width, register_tables, s.pdu))

\* recv returns k of the bytes asked for
IoRecv(k, late) ==
    /\ io.pc \in {"header", "body"}
    /\ k >= 1
    /\ k <= io.n - io.off
    /\ k <= Len(io.wire)
    /\ AfterRecv(Received(io, k, late))
    /\ UNCHANGED <<data_width, request, response, calls, hpc, srvvars>>

\* mutant: an interrupted call ends the operation
Interrupted_fails(s, call) ==
    [s EXCEPT !.pc = "failed", !.intr = @ + 1,
              !.ret = Ret(call, "EINTR", 0)]

\* if (errno == EINTR) continue;  off is as it was, the call is made again
Interrupted(s, call) ==
    [s EXCEPT !.intr = @ + 1, !.ret = Ret(call, "EINTR", 0)]

\* mutant: a failed operation is taken for a completed one
ExactFailed_ignored(s, call, kind, late) ==
    [s EXCEPT !.pc = "done", !.clock = Tick(@, late),
              !.ret = Ret(call, kind, 0)]

\* return false of read_exact and write_exact, which handle_single_request
\* passes on
ExactFailed(s, call, kind, late) ==
    [s EXCEPT !.pc = "failed", !.clock = Tick(@, late),
              !.ret = Ret(call, kind, 0)]

\* recv is interrupted by a signal
IoRecvIntr ==
    /\ io.pc \in {"header", "body"}
    /\ io.intr < MaxIntr
    /\ io' = Interrupted(io, "recv")
    /\ UNCHANGED <<pduvars, srvvars>>

\* recv with no byte to come: it returns 0 after the peer's close, fails with
\* EAGAIN when the timeout expires, or fails with ECONNRESET
IoRecvEnd ==
    /\ io.pc \in {"header", "body"}
    /\ io.wire = <<>>
    /\ io' = CASE io.end = "fin" -> ExactFailed(io, "recv", "eof", 0)
               [] io.end = "stall" -> ExactFailed(io, "recv", "EAGAIN", 1)
               [] io.end = "rst" -> ExactFailed(io, "recv", "ECONNRESET", 0)
    /\ UNCHANGED <<pduvars, srvvars>>

\* send took k bytes: off += sent_size; write_exact returns true at off = n
Sent(s, k, late) ==
    [s EXCEPT !.out = @ \o SubSeq(s.frame, s.off + 1, s.off + k),
              !.off = @ + k,
              !.pc = IF s.off + k = s.n THEN "done" ELSE "write",
              !.clock = Tick(@, late),
              !.ret = Ret("send", "bytes", k)]

\* send takes k of the bytes offered
IoSend(k, late) ==
    /\ io.pc = "write"
    /\ k >= 1
    /\ k <= io.n - io.off
    /\ io' = Sent(io, k, late)
    /\ UNCHANGED <<pduvars, srvvars>>

\* send is interrupted by a signal
IoSendIntr ==
    /\ io.pc = "write"
    /\ io.intr < MaxIntr
    /\ io' = Interrupted(io, "send")
    /\ UNCHANGED <<pduvars, srvvars>>

\* send fails: with EAGAIN when the peer takes nothing until the timeout
\* expires, with ECONNRESET on a connection the peer has reset
IoSendFail ==
    /\ io.pc = "write"
    /\ \/ io' = ExactFailed(io, "send", "EAGAIN", 1)
       \/ io.end = "rst" /\ io' = ExactFailed(io, "send", "ECONNRESET", 0)
    /\ UNCHANGED <<pduvars, srvvars>>

\* send on a connection the peer has reset raises SIGPIPE: the process is
\* terminated and its descriptors are closed
IoSendSigpipe ==
    /\ io.pc = "write"
    /\ io.end = "rst"
    /\ io' = [io EXCEPT !.pc = "killed",
                        !.ret = Ret("send", "SIGPIPE", 0)]
    /\ UNCHANGED <<pduvars, srvvars>>

\* the handler returned false: close_this, ::close(fd), swap and pop
IoLoopClose ==
    /\ io.pc = "failed"
    /\ io' = [io EXCEPT !.pc = "closed"]
    /\ UNCHANGED <<pduvars, srvvars>>

\* the handler returned true: ++i, the connection stays in the poll set
IoLoopKeep ==
    /\ io.pc = "done"
    /\ io' = [io EXCEPT !.pc = "idle"]
    /\ UNCHANGED <<pduvars, srvvars>>

\* recv returns some of the bytes the peer has sent
IoRecvSome == \E late \in {0, 1} : \E k \in {1, io.n - io.off} : IoRecv(k, late)

\* send takes some of the bytes offered
IoSendSome == \E late \in {0, 1} : \E k \in {1, io.n - io.off} : IoSend(k, late)

NextIo ==
    \/ IoCall
    \/ IoRecvSome
    \/ IoRecvIntr
    \/ IoRecvEnd
    \/ IoSendSome
    \/ IoSendIntr
    \/ IoSendFail
    \/ IoSendSigpipe
    \/ IoLoopClose
    \/ IoLoopKeep

SpecIo == InitIo /\ [][NextIo]_vars

\* recv has bytes to return: the condition under which IoRecvSome can happen
RecvReady == io.pc \in {"header", "body"} /\ io.wire # <<>>

\* a blocking recv with bytes in the socket buffer returns them: it is
\* interrupted at most finitely often (weak fairness of IoRecvSome, with its
\* enabling condition written out)
FairRecv == []<>(~RecvReady) \/ []<><<IoRecvSome>>_io

\* a blocking send returns: with bytes taken, or failing, by SO_SNDTIMEO at the
\* latest
FairSend == []<>(io.pc # "write") \/ []<><<IoSendSome \/ IoSendFail \/ IoSendSigpipe>>_io

\* every recv and send returns, and the loop goes on after the handler
SpecIoLive ==
    /\ SpecIo
    /\ WF_io(IoCall)
    /\ FairRecv
    /\ WF_io(IoRecvEnd)
    /\ FairSend
    /\ WF_io(IoLoopClose)
    /\ WF_io(IoLoopKeep)

---------------------------------------------------------------------------
(* SpecPdu: the dispatcher alone, driven with every request of Requests    *)

InitPdu ==
    /\ data_width \in {"W16", "W32"}
    /\ register_tables \in Chains
    /\ request = <<>>
    /\ response = <<>>
    /\ calls = <<>>
    /\ hpc = "idle"
    /\ ServerIdle
    /\ IoUnused

\* what a dispatch leaves: the response PDU, the backends, the invocations made
Returned(r) ==
    /\ response' = r.pdu
    /\ register_tables' = r.tables
    /\ calls' = r.calls

\* dispatch_pdu(request) is called and returns
Dispatch ==
    /\ hpc = "idle"
    /\ \E req \in Requests(data_width) :
          /\ request' = req
          /\ Returned(dispatch_pdu(data_width, register_tables, req))
    /\ hpc' = "dispatched"
    /\ UNCHANGED data_width
    /\ UNCHANGED <<srvvars, io>>

\* the caller is done with the request and the response PDU
Discard ==
    /\ hpc = "dispatched"
    /\ request' = <<>>
    /\ response' = <<>>
    /\ calls' = <<>>
    /\ hpc' = "idle"
    /\ UNCHANGED <<data_width, register_tables>>
    /\ UNCHANGED <<srvvars, io>>

NextPdu == Dispatch \/ Discard

SpecPdu == InitPdu /\ [][NextPdu]_vars

\* SpecWrite: the dispatcher driven with write-multiple requests only, the
\* longest a request can carry among them
DispatchWrite ==
    /\ hpc = "idle"
    /\ \E req \in GoodWrites(data_width) \cup LongWrites(data_width) \cup OddWrites :
          /\ request' = req
          /\ Returned(dispatch_pdu(data_width, register_tables, req))
    /\ hpc' = "dispatched"
    /\ UNCHANGED data_width
    /\ UNCHANGED <<srvvars, io>>

NextWrite == DispatchWrite \/ Discard

SpecWrite == InitPdu /\ [][NextWrite]_vars

---------------------------------------------------------------------------
(* What the claims speak of, read off the state by plain arithmetic        *)

\* a dispatch has returned and its request, response and backend calls are in view
Dispatched == hpc = "dispatched"

\* the 16-bit field at bytes k, k+1 (counted from 0) of the request
ReqField(k) == request[k + 1] * 256 + request[k + 2]

ReqFunction == request[1]

\* the backends of the chain that own an address
Owners(a) == {t \in 1..Len(register_tables) : a < Len(register_tables[t])}

Owned(a) == Owners(a) # {}

FirstOwner(a) == CHOOSE t \in Owners(a) : \A u \in Owners(a) : t <= u

\* the value the chain holds at an owned address
Stored(a) == register_tables[FirstOwner(a)][a + 1]

\* the j-th register value (from 0) of a write-multiple request
ReqValue(j) ==
    IF data_width = "W32"
    THEN ((request[7 + 4 * j] * 256 + request[8 + 4 * j]) * 256
             + request[9 + 4 * j]) * 256 + request[10 + 4 * j]
    ELSE request[7 + 2 * j] * 256 + request[8 + 2 * j]

\* the response is the exception PDU of the request's function code with this code
\* (function codes of the checked requests that carry a code are below 0x80)
IsException(code) ==
    response = <<IF ReqFunction < 128 THEN ReqFunction + 128 ELSE ReqFunction, code>>

WidthOf == IF data_width = "W32" THEN 2 ELSE 1

\* a read request that passes the length and quantity checks
ValidRead ==
    /\ Dispatched
    /\ Len(request) = 5
    /\ ReqFunction = 3
    /\ ReqField(3) % WidthOf = 0
    /\ ReqField(3) <= 128

\* a write-multiple request that passes the shape checks
ValidWrite ==
    /\ Dispatched
    /\ Len(request) >= 6
    /\ ReqFunction = 16
    /\ request[6] = 2 * ReqField(3)
    /\ ReqField(3) % WidthOf = 0
    /\ Len(request) = 6 + request[6]

\* number of logical registers a valid request names
RegCount == ReqField(3) \div WidthOf

\* the first register index of the request that no backend owns, if any
FirstMiss(k) ==
    /\ k \in 0..(RegCount - 1)
    /\ ~Owned(ReqField(1) + k)
    /\ \A j \in 0..(k - 1) : Owned(ReqField(1) + j)

---------------------------------------------------------------------------
(* Claims *)

\* C1: in 16-bit mode a 5-byte read of quantity 1..128 at owned addresses is
\* answered [0x03][quantity*2][values in address order, 2 bytes big-endian each],
\* the byte-count field equal to quantity*2 also at quantity 128.
C1_ReadResponse ==
    (/\ Dispatched
     /\ data_width = "W16"
     /\ Len(request) = 5
     /\ ReqFunction = 3
     /\ ReqField(3) \in 1..128
     /\ \A i \in 0..(ReqField(3) - 1) : Owned(ReqField(1) + i))
    => /\ Len(response) = 2 + 2 * ReqField(3)
       /\ response[1] = 3
       /\ response[2] = 2 * ReqField(3)
       /\ \A i \in 0..(ReqField(3) - 1) :
             /\ response[3 + 2 * i] = (Stored(ReqField(1) + i) \div 256) % 256
             /\ response[4 + 2 * i] = Stored(ReqField(1) + i) % 256

\* C1 (where it fails): a 16-bit read of quantity 128 at owned addresses has been
\* answered with 256 value bytes and the byte-count field 0.
C1_Quantity128 ==
    /\ Dispatched
    /\ data_width = "W16"
    /\ Len(request) = 5
    /\ ReqFunction = 3
    /\ ReqField(3) = 128
    /\ Len(response) = 258
    /\ response[2] = 0

\* C2 (as claimed): a request with the unknown function code 0x99 is answered
\* with the exception PDU F9 01.
C2_UnknownF9 ==
    (Dispatched /\ Len(request) >= 1 /\ ReqFunction = 153)
    => response = <<249, 1>>

\* C2 (amended): a request with the unknown function code 0x99 is answered with
\* the exception PDU 99 01: 0x99 | 0x80 is 0x99, and the code is 1.
C2_Unknown99 ==
    (Dispatched /\ Len(request) >= 1 /\ ReqFunction = 153)
    => response = <<153, 1>>

C2_Witness ==
    /\ Dispatched
    /\ Len(request) = 5
    /\ ReqFunction = 153
    /\ response = <<153, 1>>

\* C3: a write-multiple request whose byte_count differs from quantity*2, or
\* whose size differs from 6+byte_count (bytes missing or trailing), is answered
\* [0x90][3] and no backend is invoked, in either width.
C3_WriteShape ==
    (/\ Dispatched
     /\ Len(request) >= 1
     /\ ReqFunction = 16
     /\ \/ Len(request) < 6
        \/ request[6] # 2 * ReqField(3)
        \/ Len(request) # 6 + request[6])
    => /\ response = <<144, 3>>
       /\ calls = <<>>

\* a request with one trailing byte and nothing else wrong, at owned addresses
C3_Witness ==
    /\ Dispatched
    /\ Len(request) >= 6
    /\ ReqFunction = 16
    /\ ReqField(3) = 2
    /\ request[6] = 2 * ReqField(3)
    /\ Len(request) = 6 + request[6] + 1
    /\ Owned(ReqField(1))
    /\ response = <<144, 3>>

\* C4: when register k of a well-formed write-multiple request is the first one
\* no backend owns, the response is [0x90][2], the registers before it hold the
\* values of the request, and no backend is called for an address after start+k.
C4_NoRollback ==
    \A k \in 0..2 * (MaxRegs + 1) :
        (ValidWrite /\ FirstMiss(k))
        => /\ response = <<144, 2>>
           /\ \A j \in 0..(k - 1) : Stored(ReqField(1) + j) = ReqValue(j)
           /\ \A c \in 1..Len(calls) :
                 /\ calls[c].op = "write"
                 /\ calls[c].address <= ReqField(1) + k
           /\ \A t \in 1..Len(register_tables) :
                 \E c \in 1..Len(calls) :
                     calls[c].table = t /\ calls[c].address = ReqField(1) + k

\* a write of two registers whose first was stored and whose second missed
C4_Witness ==
    /\ ValidWrite
    /\ FirstMiss(1)
    /\ Stored(ReqField(1)) = ReqValue(0)
    /\ ReqValue(0) # 0
    /\ response = <<144, 2>>

\* C5: a read request that passes the length and quantity checks and names at
\* least one address no backend owns is answered exactly [0x83][2]: no value
\* byte of the registers read before the miss is in the response.
C5_ReadMiss ==
    (/\ ValidRead
     /\ \E i \in 0..(RegCount - 1) : ~Owned(ReqField(1) + i))
    => response = <<131, 2>>

\* a read whose first register was read from a backend and whose second missed
C5_Witness ==
    /\ ValidRead
    /\ FirstMiss(1)
    /\ Len(calls) >= 2
    /\ response = <<131, 2>>

\* C6: a read or write-multiple request whose quantity is not divisible by
\* width_count is answered with exception code 3, whatever its other fields and
\* its length, and no backend is invoked.
C6_Indivisible ==
    (/\ Dispatched
     /\ Len(request) >= 5
     /\ ReqFunction \in {3, 16}
     /\ ReqField(3) % WidthOf # 0)
    => /\ IsException(3)
       /\ calls = <<>>

\* an odd quantity in 32-bit mode, in a request with nothing else wrong
C6_Witness ==
    /\ Dispatched
    /\ data_width = "W32"
    /\ Len(request) = 5
    /\ ReqFunction = 3
    /\ ReqField(3) = 1
    /\ Owned(ReqField(1))
    /\ response = <<131, 3>>

\* C7: in 32-bit mode every write-single request is answered with exception
\* code 3, whatever its address and length, and no backend is invoked.
C7_SingleIn32 ==
    (/\ Dispatched
     /\ data_width = "W32"
     /\ Len(request) >= 1
     /\ ReqFunction = 6)
    => /\ response = <<134, 3>>
       /\ calls = <<>>

C7_Witness ==
    /\ Dispatched
    /\ data_width = "W32"
    /\ Len(request) = 5
    /\ ReqFunction = 6
    /\ Owned(ReqField(1))
    /\ response = <<134, 3>>

\* C8: in 16-bit mode a 5-byte write-single request at an owned address stores
\* the value in the first owning backend (the backends before it are offered the
\* write and decline, none after it is called) and is answered with the request
\* itself; at an address no backend owns it is answered [0x86][2].
C8_SingleEcho ==
    (/\ Dispatched
     /\ data_width = "W16"
     /\ Len(request) = 5
     /\ ReqFunction = 6)
    => IF Owned(ReqField(1))
       THEN /\ response = request
            /\ Stored(ReqField(1)) = ReqField(3)
            /\ calls = [t \in 1..FirstOwner(ReqField(1)) |->
                           [op |-> "write", table |-> t, address |-> ReqField(1),
                            value |-> ReqField(3)]]
       ELSE /\ response = <<134, 2>>
            /\ Len(calls) = Len(register_tables)

\* a write stored in the second backend of the chain, the first having declined
C8_Witness ==
    /\ Dispatched
    /\ data_width = "W16"
    /\ Len(request) = 5
    /\ ReqFunction = 6
    /\ Owned(ReqField(1))
    /\ FirstOwner(ReqField(1)) = 2
    /\ ReqField(3) = 4660
    /\ response = request

\* the loop over the connected ports is at the entry of connection c, whose
\* revents make it call handle_single_request, and this step is the loop's
HandlerCalledOn(c) ==
    /\ pc = "scan"
    /\ scan_i < Len(pollfd_list)
    /\ pollfd_list[scan_i + 1].fd = c
    /\ "POLLIN" \in pollfd_list[scan_i + 1].revents
    /\ pollfd_list[scan_i + 1].revents \cap {"POLLERR", "POLLHUP", "POLLNVAL"} = {}
    /\ <<pc, scan_i, pollfd_list>>' # <<pc, scan_i, pollfd_list>>

\* the length field of a frame of at least 7 bytes
FrameLength(buf) == buf[5] * 256 + buf[6]

\* the bytes a socket holds do not make a request: fewer than 7 bytes, a protocol
\* id other than 0, a length below 2, a PDU of more than 256 bytes, or fewer PDU
\* bytes than the length announces
TransportFatal(buf) ==
    \/ Len(buf) < 7
    \/ buf[3] * 256 + buf[4] # 0
    \/ FrameLength(buf) < 2
    \/ FrameLength(buf) - 1 > 256
    \/ Len(buf) < 6 + FrameLength(buf)

InPollSet(c) == \E k \in 1..Len(pollfd_list) : pollfd_list[k].fd = c

\* C9: when the handler is called on a connection whose bytes are transport-fatal
\* (short header, protocol id not 0, length below 2, PDU longer than 256, short
\* body), it returns false, no byte is written to the socket, neither the
\* dispatcher nor a backend is invoked, and the loop closes the connection and
\* takes it out of the poll set.
C9_TransportFatal ==
    [][\A c \in Conns :
          (HandlerCalledOn(c) /\ TransportFatal(rx[c]))
          => /\ last'.op = "handle"
             /\ last'.fd = c
             /\ last'.ok = FALSE
             /\ txbytes' = txbytes
             /\ served' = served
             /\ hpc' = "idle"
             /\ calls' = <<>>
             /\ register_tables' = register_tables
             /\ sock'[c] = "closed"
             /\ ~InPollSet(c)']_vars

\* a peer has sent 4 bytes and closed; the handler was called, returned false,
\* and the connection is closed with nothing written
C9_Witness ==
    \E c \in Conns :
        /\ last = [op |-> "handle", fd |-> c, input |-> <<2, 5, 0, 0>>, ok |-> FALSE]
        /\ peer[c] = "fin"
        /\ sock[c] = "closed"
        /\ txbytes[c] = 0
        /\ served[c] = <<>>

\* the PDU of a frame that is not transport-fatal
FramePdu(buf) == SubSeq(buf, 8, 6 + FrameLength(buf))

PduField(pdu, k) == pdu[k + 1] * 256 + pdu[k + 2]

\* the exception code the protocol-recoverable conditions call for, 0 for a PDU
\* that shows none of them: unknown function code (1), wrong length for a known
\* function code (3), single write in 32-bit mode (3), an address no backend owns (2)
RecoverableCode(pdu) ==
    CASE pdu[1] \notin {3, 6, 16} -> 1
      [] pdu[1] \in {3, 6} /\ Len(pdu) # 5 -> 3
      [] pdu[1] = 16 /\ Len(pdu) < 6 -> 3
      [] pdu[1] = 16 /\ Len(pdu) >= 6 /\ Len(pdu) # 6 + pdu[6] -> 3
      [] pdu[1] = 6 /\ Len(pdu) = 5 /\ data_width = "W32" -> 3
      [] pdu[1] = 6 /\ Len(pdu) = 5 /\ data_width = "W16"
            /\ ~Owned(PduField(pdu, 1)) -> 2
      [] pdu[1] = 3 /\ Len(pdu) = 5
            /\ PduField(pdu, 3) \in 1..128
            /\ PduField(pdu, 3) % WidthOf = 0
            /\ \E j \in 0..(PduField(pdu, 3) \div WidthOf - 1) :
                  ~Owned(PduField(pdu, 1) + j) -> 2
      [] pdu[1] = 16 /\ Len(pdu) >= 6 /\ Len(pdu) = 6 + pdu[6]
            /\ pdu[6] = 2 * PduField(pdu, 3)
            /\ PduField(pdu, 3) % WidthOf = 0
            /\ \E j \in 0..(PduField(pdu, 3) \div WidthOf - 1) :
                  ~Owned(PduField(pdu, 1) + j) -> 2
      [] OTHER -> 0

\* C10: when the handler is called on a connection holding a well-framed request
\* that shows a protocol-recoverable condition, the dispatcher answers with the
\* exception PDU [function_code | 0x80][code], code in 1..4, in a frame that
\* echoes the transaction id and the unit id; once that frame is written in
\* full the connection is open and in the poll set, and the bytes that followed
\* the request wait in the socket for the next call of the handler.
C10_Recoverable ==
    [][\A c \in Conns :
          (/\ HandlerCalledOn(c)
           /\ ~TransportFatal(rx[c])
           /\ RecoverableCode(FramePdu(rx[c])) # 0)
          => /\ hpc' = "dispatched"
             /\ request' = FramePdu(rx[c])
             /\ response' =
                  <<IF rx[c][8] < 128 THEN rx[c][8] + 128 ELSE rx[c][8],
                    RecoverableCode(FramePdu(rx[c]))>>
             /\ response'[2] \in 1..4
             /\ Len(served'[c]) = Len(served[c]) + 1
             /\ served'[c][Len(served'[c])].resp_pdu = response'
             /\ served'[c][Len(served'[c])].frame =
                  <<rx[c][1], rx[c][2], 0, 0, 0, 3, rx[c][7]>> \o response'
             /\ txbytes'[c] = txbytes[c] + 9
                  => /\ last'.ok
                     /\ sock'[c] = "open"
                     /\ InPollSet(c)'
                     /\ rx'[c] = SubSeq(rx[c], 7 + FrameLength(rx[c]), Len(rx[c]))]_vars

\* a connection was answered an exception, stayed open, and its next request, a
\* read, was answered with the register values
C10_Witness ==
    \E c \in Conns :
        /\ Len(served[c]) = 2
        /\ served[c][1].pdu = <<153>>
        /\ served[c][1].resp_pdu = <<153, 1>>
        /\ served[c][1].written = 9
        /\ served[c][2].pdu = <<3, 0, 0, 0, 2>>
        /\ served[c][2].resp_pdu[1] = 3
        /\ served[c][2].written = Len(served[c][2].frame)
        /\ sock[c] = "open"
        /\ InPollSet(c)

\* C11: every response the handler has written is the frame [transaction_id]
\* [0x0000][1 + resp_pdu length][unit_id][resp_pdu], transaction id and unit id
\* being those of the request it answers; the handler hands all 7 + resp_pdu
\* length bytes to the socket and reports success exactly when all are written.
\* This holds for success and for exception responses.
C11_ResponseHeader ==
    \A c \in Conns : \A k \in 1..Len(served[c]) :
        /\ Len(served[c][k].frame) = 7 + Len(served[c][k].resp_pdu)
        /\ served[c][k].frame[1] = served[c][k].header[1]
        /\ served[c][k].frame[2] = served[c][k].header[2]
        /\ served[c][k].frame[3] = 0
        /\ served[c][k].frame[4] = 0
        /\ served[c][k].frame[5] * 256 + served[c][k].frame[6]
              = 1 + Len(served[c][k].resp_pdu)
        /\ served[c][k].frame[7] = served[c][k].header[7]
        /\ SubSeq(served[c][k].frame, 8, Len(served[c][k].frame))
              = served[c][k].resp_pdu
        /\ served[c][k].written \in 0..Len(served[c][k].frame)
        /\ served[c][k].ok <=> served[c][k].written = 7 + Len(served[c][k].resp_pdu)

\* an exception response and a read response, both written in full on one
\* connection, each under the header of its own request
C11_Witness ==
    \E c \in Conns :
        /\ Len(served[c]) = 2
        /\ served[c][1].frame = <<1, 7, 0, 0, 0, 3, 19, 131, 3>>
        /\ served[c][1].written = 9
        /\ SubSeq(served[c][2].frame, 1, 8) = <<1, 2, 0, 0, 0, 7, 17, 3>>
        /\ served[c][2].written = 13

\* backend t of the chain reports ownership of address a
Owns(t, a) == a < Len(register_tables[t])

\* the response is an illegal-address exception
IllegalAddress ==
    Len(response) = 2 /\ response[1] >= 128 /\ response[2] = 2

\* C12: the backend invocations of a request go, for each register address,
\* through the chain in registration order from the first backend on, each
\* backend being asked only after the one before it declined; the first that
\* owns the address ends the address and the next address starts at the first
\* backend again; the response is the illegal-address exception exactly when
\* every backend of the chain has declined one address.
C12_ChainOrder ==
    Dispatched =>
      /\ \A k \in 1..Len(calls) :
            /\ calls[k].table \in 1..Len(register_tables)
            /\ calls[k].table > 1 =>
                  /\ k > 1
                  /\ calls[k - 1].table = calls[k].table - 1
                  /\ calls[k - 1].address = calls[k].address
                  /\ calls[k - 1].op = calls[k].op
                  /\ ~Owns(calls[k - 1].table, calls[k].address)
            /\ (calls[k].table = 1 /\ k > 1) =>
                  /\ Owns(calls[k - 1].table, calls[k - 1].address)
                  /\ calls[k].address = calls[k - 1].address + 1
            /\ (k < Len(calls) /\ Owns(calls[k].table, calls[k].address)) =>
                  calls[k + 1].table = 1
            /\ (~Owns(calls[k].table, calls[k].address)
                  /\ calls[k].table < Len(register_tables)) =>
                  k < Len(calls)
      /\ IllegalAddress =>
            /\ Len(calls) >= Len(register_tables)
            /\ \A t \in 1..Len(register_tables) :
                  /\ calls[Len(calls) - Len(register_tables) + t].table = t
                  /\ calls[Len(calls) - Len(register_tables) + t].address
                        = calls[Len(calls)].address
                  /\ ~Owns(t, calls[Len(calls)].address)
      /\ (Len(calls) > 0 /\ ~Owns(calls[Len(calls)].table, calls[Len(calls)].address))
            => IllegalAddress

\* a read of two registers on a chain of two backends, the first of which
\* declined both addresses and the second of which served both
C12_Witness ==
    /\ ValidRead
    /\ Len(register_tables) = 2
    /\ Len(calls) = 4
    /\ calls[1].table = 1 /\ calls[2].table = 2
    /\ calls[3].table = 1 /\ calls[4].table = 2
    /\ calls[2].address = ReqField(1)
    /\ calls[4].address = ReqField(1) + 1
    /\ Owns(2, calls[4].address)
    /\ ~IllegalAddress

\* the first backend that owns address a raises when it is asked
FaultAt(a) == Owned(a) /\ register_tables[FirstOwner(a)][a + 1] = 0 - 1

\* the registers start .. start+n-1 are served up to one whose backend raises
FaultInRange(start, n) ==
    \E j \in 0..(n - 1) :
        /\ FaultAt(start + j)
        /\ \A i \in 0..(j - 1) : Owned(start + i) /\ ~FaultAt(start + i)

\* carrying out the PDU, of a recognized function code and of valid shape,
\* meets a backend that raises
FaultHit(pdu) ==
    \/ /\ pdu[1] = 3 /\ Len(pdu) = 5
       /\ PduField(pdu, 3) \in 1..128
       /\ PduField(pdu, 3) % WidthOf = 0
       /\ FaultInRange(PduField(pdu, 1), PduField(pdu, 3) \div WidthOf)
    \/ /\ pdu[1] = 6 /\ Len(pdu) = 5
       /\ data_width = "W16"
       /\ FaultAt(PduField(pdu, 1))
    \/ /\ pdu[1] = 16 /\ Len(pdu) >= 6 /\ Len(pdu) = 6 + pdu[6]
       /\ pdu[6] = 2 * PduField(pdu, 3)
       /\ PduField(pdu, 3) % WidthOf = 0
       /\ FaultInRange(PduField(pdu, 1), PduField(pdu, 3) \div WidthOf)

\* C13: when the handler is called on a well-framed request of function code
\* 0x03, 0x06 or 0x10 whose execution meets a backend that raises, the handler
\* returns normally: the request is answered [function_code | 0x80][4] under
\* the request's transaction and unit id, and once that frame is written in
\* full the connection is open and in the poll set.
C13_BackendFault ==
    [][\A c \in Conns :
          (/\ HandlerCalledOn(c)
           /\ ~TransportFatal(rx[c])
           /\ FaultHit(FramePdu(rx[c])))
          => /\ last'.op = "handle"
             /\ hpc' = "dispatched"
             /\ response' = <<rx[c][8] + 128, 4>>
             /\ Len(served'[c]) = Len(served[c]) + 1
             /\ served'[c][Len(served'[c])].frame =
                  <<rx[c][1], rx[c][2], 0, 0, 0, 3, rx[c][7]>> \o response'
             /\ txbytes'[c] = txbytes[c] + 9
                  => /\ last'.ok
                     /\ sock'[c] = "open"
                     /\ InPollSet(c)']_vars

\* in 16-bit mode a write and then a read met the raising backend on one
\* connection; both were answered with code 4 and the connection is open
C13_Witness ==
    \E c \in Conns :
        /\ data_width = "W16"
        /\ Len(served[c]) = 2
        /\ served[c][1].resp_pdu = <<144, 4>>
        /\ served[c][1].written = 9
        /\ served[c][2].resp_pdu = <<131, 4>>
        /\ served[c][2].written = 9
        /\ sock[c] = "open"
        /\ InPollSet(c)

\* C14: no event on a connection terminates the process: serve never leaves
\* its loop.
C14_LoopAlive == pc # "killed"

\* C14 (where it fails): a peer sent a request and then reset the connection
\* after poll() had reported the socket readable; the handler read and
\* dispatched the request, and the send of the response raised SIGPIPE, which
\* terminated the process.
C14_Sigpipe ==
    /\ pc = "killed"
    /\ \E c \in Conns :
          /\ peer[c] = "rst"
          /\ last = [op |-> "handle", fd |-> c,
                     input |-> <<1, 2, 0, 0, 0, 6, 17, 3, 0, 0, 0, 2>>, ok |-> FALSE]
          /\ Len(served[c]) = 1
          /\ served[c][1].written = 0

\* the handler is running on the connection
IoRunning == io.pc \in {"header", "body", "write"}

\* the handler has returned true with its whole response frame on the wire
IoComplete == io.pc = "done" /\ io.frame # <<>> /\ io.out = io.frame

\* the connection's descriptor is closed: by the loop, after the handler
\* returned false, or with the process
IoGone == io.pc \in {"closed", "killed"}

\* C15: a request the handler has started on a connection ends with the
\* complete response written or with the connection closed; the connection is
\* never back in the poll set with bytes of a request consumed and the response
\* not written in full.
C15_Completion ==
    /\ [](io.pc = "idle" /\ io.taken # <<>> =>
             io.frame # <<>> /\ io.out = io.frame)
    /\ (IoRunning ~> (IoComplete \/ IoGone))

\* a response was written in part, the write failed and the connection was
\* closed
C15_Witness ==
    /\ io.pc = "closed"
    /\ io.ret.call = "send"
    /\ io.out # <<>>
    /\ Len(io.out) < Len(io.frame)

\* C16: the handling of one request keeps the loop for at most one timeout
\* period.
C16_OnePeriod == io.clock <= 1

\* C16 (where it fails): every recv of the header returned bytes just before
\* its timeout expired; two periods have passed, the handler is still reading
\* the request and the connection is not closed.
C16_Trickle ==
    /\ io.pc = "body"
    /\ io.clock = 2
    /\ io.ret = [call |-> "recv", kind |-> "bytes", count |-> 1]

\* C20: read_exact and write_exact repeat a call that ends in EINTR with the
\* offset and the buffers as they were; the bytes read are the bytes taken from
\* the socket, in order, and the bytes sent are the frame up to the offset, the
\* whole frame when write_exact returns true; a recv that returns 0 and a recv
\* or send that fails otherwise (timeout included) make the handler return
\* false, after which the connection is closed with nothing more written: a
\* failed read is answered with no byte.
C20_ExactIo ==
    /\ [](/\ io.taken = io.header \o io.pdu
          /\ io.pc = "header" => Len(io.header) = io.off
          /\ io.pc = "body" => Len(io.header) = 7 /\ Len(io.pdu) = io.off
          /\ io.pc = "write" => io.out = SubSeq(io.frame, 1, io.off)
          /\ io.pc = "done" => io.out = io.frame
          /\ (io.pc \in {"failed", "closed"} /\ io.ret.call = "recv") => io.out = <<>>)
    /\ [][/\ io'.intr # io.intr =>
                /\ io'.pc = io.pc
                /\ io'.off = io.off
                /\ io'.n = io.n
                /\ io'.header = io.header
                /\ io'.pdu = io.pdu
                /\ io'.out = io.out
                /\ io'.wire = io.wire
          /\ (IoRunning /\ io'.pc # "idle") => io'.taken \o io'.wire = io.taken \o io.wire
          /\ (IoRunning /\ io'.ret.kind \in {"eof", "EAGAIN", "ECONNRESET"}) =>
                /\ io'.pc = "failed"
                /\ io'.out = io.out
          /\ io.pc = "failed" =>
                /\ io'.pc = "closed"
                /\ io'.out = io.out]_vars

\* a request was read and its response written with one call interrupted on
\* the way: the 12 bytes of the request and the 13 of the response went through
C20_Witness ==
    /\ io.pc = "done"
    /\ io.intr = 1
    /\ io.taken = <<1, 2, 0, 0, 0, 6, 17, 3, 0, 0, 0, 2>>
    /\ Len(io.out) = 13
    /\ io.out = io.frame

\* the step is an iteration of the loop over the connected ports, on entry e
Examines(e) ==
    /\ pc = "scan"
    /\ scan_i < Len(pollfd_list)
    /\ e = pollfd_list[scan_i + 1]
    /\ pass'.seen = Append(pass.seen, e)

\* nothing of the handler has run in the step: no byte read, no request
\* dispatched, no byte written
NoHandlerRun ==
    /\ served' = served
    /\ txbytes' = txbytes
    /\ register_tables' = register_tables
    /\ last'.op # "handle"

\* the handler ran once on connection c in the step: at most one request was
\* dispatched, the bytes taken from the connection are those of one frame, and
\* nothing was read from or written to another connection (the other
\* connections are left as they were unless the process ended in the call)
OneRequest(c) ==
    /\ last'.op = "handle" /\ last'.fd = c
    /\ \A d \in Conns \ {c} :
          /\ served'[d] = served[d]
          /\ txbytes'[d] = txbytes[d]
          /\ pc' # "killed" => rx'[d] = rx[d] /\ sock'[d] = sock[d]
    /\ \/ served'[c] = served[c]
       \/ /\ Len(served'[c]) = Len(served[c]) + 1
          /\ LET r == served'[c][Len(served'[c])]
             IN  /\ rx[c] = r.header \o r.pdu \o SubSeq(rx[c], Len(r.header) + Len(r.pdu) + 1, Len(rx[c]))
                 /\ last'.ok => rx'[c] = SubSeq(rx[c], Len(r.header) + Len(r.pdu) + 1, Len(rx[c]))
    /\ last'.ok => Len(served'[c]) = Len(served[c]) + 1

\* C17: in the loop over the connected ports, an entry whose revents hold
\* POLLERR, POLLHUP or POLLNVAL is closed without handle_single_request being
\* called, even when POLLIN is set too; an entry with POLLIN and none of these
\* gets handle_single_request called once, for one request, and is closed
\* exactly when the handler did not return true; an entry with neither is left
\* alone
C17_ErrorOrHandler ==
    [][\A k \in 1..Len(pollfd_list) :
          Examines(pollfd_list[k]) =>
             LET e == pollfd_list[k]
             IN  /\ e.revents \cap POLLFLAGS_ERR # {} =>
                       /\ NoHandlerRun
                       /\ last' = [op |-> "close", fd |-> e.fd]
                       /\ sock[e.fd] = "open" /\ sock'[e.fd] = "closed"
                 /\ (e.revents \cap POLLFLAGS_ERR = {} /\ "POLLIN" \in e.revents) =>
                       /\ OneRequest(e.fd)
                       /\ sock[e.fd] = "open"
                       /\ (sock'[e.fd] = "closed") <=> ~last'.ok
                 /\ (e.revents \cap POLLFLAGS_ERR = {} /\ "POLLIN" \notin e.revents) =>
                       /\ NoHandlerRun
                       /\ sock'[e.fd] = sock[e.fd]]_vars

\* a connection that was readable and reset at poll() has been closed without
\* the handler, with a request of its peer unread
C17_Witness ==
    /\ pass.seen # <<>>
    /\ LET e == pass.seen[Len(pass.seen)]
       IN  /\ {"POLLIN", "POLLERR"} \subseteq e.revents
           /\ last = [op |-> "close", fd |-> e.fd]
           /\ sock[e.fd] = "closed"
           /\ served[e.fd] = <<>>
           /\ nsent > 0

\* the descriptors of the poll set from index 1 on
ClientEntries == 2..Len(pollfd_list)

\* C18: while serve runs, pollfd_list[0] is the listening socket; the entries
\* from index 1 on are accepted connections that are not closed, every accepted
\* connection that is not closed is among them, and no two of them hold the
\* same descriptor; every iteration of the loop over the connected ports finds
\* the descriptor of its entry open, so that no descriptor is closed twice
C18_PollSet ==
    /\ [](/\ pc # "killed" =>
               pollfd_list # <<>> /\ pollfd_list[1].fd = listen_fd
          /\ \A k \in ClientEntries :
                pollfd_list[k].fd \in Conns /\ sock[pollfd_list[k].fd] = "open"
          /\ \A c \in Conns :
                sock[c] = "open" => \E k \in ClientEntries : pollfd_list[k].fd = c
          /\ \A j, k \in ClientEntries :
                pollfd_list[j].fd = pollfd_list[k].fd => j = k)
    /\ [][\A c \in Conns :
             sock'[c] = "closed" /\ sock[c] # "closed" =>
                \/ pc' = "killed"
                \/ /\ sock[c] = "open"
                   /\ pc = "scan" /\ pollfd_list[scan_i + 1].fd = c
                   /\ \A d \in Conns \ {c} : sock'[d] = sock[d]]_vars

\* two connections were accepted, the one at index 1 was closed and the one at
\* index 2 took its slot
C18_Witness ==
    /\ pc # "killed"
    /\ Len(pollfd_list) = 2
    /\ pollfd_list[2].fd = 2
    /\ sock[1] = "closed"
    /\ sock[2] = "open"

\* the entries of the poll set the pass has still to examine
Pending == SubSeq(pollfd_list, scan_i + 1, Len(pollfd_list))

\* the elements of a sequence
Range(q) == {q[k] : k \in 1..Len(q)}

\* C19: in a pass over the connected ports, the entries examined so far and
\* the entries still ahead of the index are together the entries the poll set
\* held when the pass started, each once and with the revents poll() stored for
\* it: at the end of the pass every entry has been examined exactly once,
\* whatever was removed by swap and pop on the way.  (A pass cut short by the
\* end of the process has examined no entry twice.)
C19_ExaminedOnce ==
    /\ \A j, k \in 1..Len(pass.seen) : pass.seen[j].fd = pass.seen[k].fd => j = k
    /\ Range(pass.seen) \subseteq Range(pass.start)
    /\ pc = "scan" =>
          /\ Len(pass.seen) + Len(Pending) = Len(pass.start)
          /\ Range(pass.seen) \cup Range(Pending) = Range(pass.start)
    /\ pc = "poll" =>
          /\ Len(pass.seen) = Len(pass.start)
          /\ Range(pass.seen) = Range(pass.start)

\* a pass over two entries is over: the first was closed, the second was
\* moved into its slot and then served with the POLLIN poll() had stored for it
C19_Witness ==
    /\ pc = "poll"
    /\ Len(pass.start) = 2
    /\ Len(pass.seen) = 2
    /\ pass.seen[2] = pass.start[2]
    /\ sock[pass.seen[1].fd] = "closed"
    /\ pass.seen[1].revents # pass.seen[2].revents
    /\ last.op = "handle" /\ last.fd = pass.seen[2].fd /\ last.ok

\* what set_keepalive asks for
KeepaliveOptions == {"SO_KEEPALIVE", "TCP_KEEPIDLE", "TCP_KEEPINTVL", "TCP_KEEPCNT"}

\* what set_sock_timeouts_ms asks for
TimeoutOptions == {"SO_RCVTIMEO", "SO_SNDTIMEO"}

\* the connections whose socket is in the poll set
InPoll == {pollfd_list[k].fd : k \in 2..Len(pollfd_list)}

\* C21 as stated: every accepted socket in the poll set was set non-blocking
\* and given keepalive and the receive and send timeouts
C21_NonBlockingClient ==
    \A c \in InPoll :
        /\ "O_NONBLOCK" \in sockopts[c]
        /\ KeepaliveOptions \subseteq sockopts[c]
        /\ TimeoutOptions \subseteq sockopts[c]

\* C21 amended: every accepted socket in the poll set was given keepalive
\* (idle, interval, count) and the receive and send timeouts, and was not set
\* non-blocking; a socket not yet returned by accept() has no option set by
\* the server, and the options of a socket are not changed after it has joined
\* the poll set
C21_BlockingClient ==
    /\ \A c \in InPoll :
          /\ KeepaliveOptions \subseteq sockopts[c]
          /\ TimeoutOptions \subseteq sockopts[c]
          /\ "O_NONBLOCK" \notin sockopts[c]
    /\ \A c \in Conns :
          /\ sock[c] \in {"none", "backlog"} => sockopts[c] = {}
          /\ sock[c] = "open" => c \in InPoll
          /\ sockopts[c] \in {{}, KeepaliveOptions \cup TimeoutOptions}

\* two connections accepted in one wake are both in the poll set with their
\* options, before the pass over the connected ports has examined either
C21_Witness ==
    /\ Len(pollfd_list) = 3
    /\ pollfd_list[2].revents = {} /\ pollfd_list[3].revents = {}
    /\ sockopts[pollfd_list[2].fd] = KeepaliveOptions \cup TimeoutOptions
    /\ sockopts[pollfd_list[3].fd] = KeepaliveOptions \cup TimeoutOptions
    /\ pass.seen = <<>>

\* the write-multiple request of the state was answered with its echo
WriteSucceeded ==
    /\ ValidWrite
    /\ response = <<FC_WRITE_MULTIPLE_REGISTERS>> \o SubSeq(request, 2, 5)

\* what a read of the registers just written returns, asked of the backends
\* as the write left them
ReadBack ==
    dispatch_pdu(data_width, register_tables,
                 ReadRequest(ReqField(1), ReqField(3))).pdu

\* C22: after a write-multiple request (start, quantity, values) that
\* succeeded, a read of (start, quantity) with no write in between returns
\* [0x03][quantity*2] followed by the value bytes of the write request, in
\* 16-bit and in 32-bit mode, for every quantity the write accepts
C22_RoundTrip ==
    WriteSucceeded =>
        ReadBack = <<FC_READ_HOLDING_REGISTERS, ReqField(3) * 2>>
                       \o SubSeq(request, 7, Len(request))

\* the largest write of 32-bit registers was stored by the second backend of
\* a chain and reads back
C22_Witness ==
    /\ WriteSucceeded
    /\ data_width = "W32"
    /\ ReqField(3) = 2 * (MaxWriteQuantity \div 2)
    /\ ReqField(1) = 1
    /\ Len(register_tables) = 2
    /\ Len(ReadBack) = 2 + 2 * ReqField(3)

====
